---- MODULE Spec2Model ----
(***************************************************************************)
(* Model of the interview helper: the InterviewHelper React component      *)
(* (speech-recognition events, asynchronous suggestion fetches, the        *)
(* history kept in memory and in local storage) and the edge function      *)
(* that forwards a question to the generative-language API.                *)
(***************************************************************************)
EXTENDS Integers, Sequences, FiniteSets, TLC

(* ------------------------------ bounds --------------------------------- *)

\* requests the component may send in one run
MaxFetches == 2
\* longest array found in local storage at mount
MaxStored == 51

(* --------------------------- program constants ------------------------- *)

\* [newHistoryItem, ...interviewHistory].slice(0, 50)
HistoryCap == 50

VARIABLES
    mounted,            \* the component has rendered and run its mount effects
    storage,            \* localStorage entry 'interviewHistory'
    interviewHistory,   \* useState<InterviewHistoryItem[]>
    capturedHistory,    \* interviewHistory as seen by the getAISuggestion that onresult calls
    question,           \* useState("") : displayed transcript, a sequence of characters
    suggestion,         \* useState("") : displayed suggestion
    isLoading,          \* useState(false)
    isListening,        \* useState(false)
    recActive,          \* the recognition engine is started and has not ended
    inflight,           \* suggestion fetches awaiting their response
    sent,               \* number of requests sent so far
    last,               \* the handler that ran last and what it was given
    storageFailed,      \* some localStorage operation has thrown
    edge                \* the edge function's handling of one request

clientVars == <<mounted, storage, interviewHistory, capturedHistory, question,
                suggestion, isLoading, isListening, recActive, inflight, sent,
                last, storageFailed>>
vars == <<clientVars, edge>>

(* ------------------------------ strings -------------------------------- *)

Min(a, b) == IF a < b THEN a ELSE b

IsSpace(c) == c = " "

RECURSIVE TrimStart(_)
TrimStart(s) ==
    IF s # <<>> /\ IsSpace(Head(s)) THEN TrimStart(Tail(s)) ELSE s

RECURSIVE TrimEnd(_)
TrimEnd(s) ==
    IF s # <<>> /\ IsSpace(s[Len(s)]) THEN TrimEnd(SubSeq(s, 1, Len(s) - 1)) ELSE s

\* String.prototype.trim
Trim(s) == TrimEnd(TrimStart(s))

\* Array.prototype.slice(0, n)
Slice(s, n) == SubSeq(s, 1, Min(n, Len(s)))

\* Array.from(event.results).map(r => r[0]).map(r => r.transcript).join('')
RECURSIVE JoinTranscript(_)
JoinTranscript(results) ==
    IF results = <<>> THEN <<>>
    ELSE Head(results).transcript \o JoinTranscript(Tail(results))

\* text of the answer the service gives to request n
AnswerText(n) == "answer" \o ToString(n)

(* --------------------------- local storage ----------------------------- *)

\* the entry is a string or absent; a string is the empty string, text that is
\* not JSON, JSON of a non-array value, or JSON of an array (compact, as
\* JSON.stringify writes it, or with other whitespace)
Absent == [kind |-> "absent", compact |-> TRUE, items |-> <<>>]
EmptyString == [kind |-> "emptystr", compact |-> TRUE, items |-> <<>>]
Corrupt == [kind |-> "corrupt", compact |-> TRUE, items |-> <<>>]
NonArray == [kind |-> "nonarray", compact |-> TRUE, items |-> <<>>]
ArrayText(items, compact) == [kind |-> "array", compact |-> compact, items |-> items]

\* JSON.stringify(interviewHistory)
JSONStringify(history) == ArrayText(history, TRUE)

\* a record saved by an earlier session
OldItem(i) == [id |-> 0 - i, question |-> <<"a">>, suggestion |-> "old"]
\* an array element that is not a well-formed record
BadItem == [id |-> 0, question |-> <<>>, suggestion |-> ""]

OldItems(k) == [i \in 1..k |-> OldItem(i)]

\* what local storage may hold when the component mounts
InitialStorage ==
    {Absent, EmptyString, Corrupt, NonArray}
      \cup {ArrayText(OldItems(k), TRUE) : k \in {0, MaxStored}}
      \cup {ArrayText(OldItems(2), FALSE), ArrayText(<<BadItem>>, TRUE)}

\* loadHistory whose catch does not remove the entry
LoadHistoryKeepsCorrupt(st) ==
    IF st.kind = "array"
    THEN [history |-> st.items, storage |-> st]
    ELSE [history |-> <<>>, storage |-> st]

\* loadHistory: the history it sets and the storage it leaves
LoadHistory(st) ==
    IF st.kind \in {"absent", "emptystr"}
    THEN [history |-> <<>>, storage |-> st]
    ELSE IF st.kind = "corrupt"
    THEN [history |-> <<>>, storage |-> Absent]
    ELSE IF st.kind = "array"
    THEN [history |-> st.items, storage |-> st]
    ELSE [history |-> <<>>, storage |-> st]

\* saveHistory that writes nothing
SaveHistoryNoWrite(history, st, ok) == st

\* saveHistory: the storage it leaves; ok = setItem did not throw
SaveHistory(history, st, ok) ==
    IF Len(history) > 0 /\ ok THEN JSONStringify(history) ELSE st

\* whether saveHistory's setItem threw
SaveFailed(history, ok) == Len(history) > 0 /\ ~ok

(* ---------------------------- edge function ---------------------------- *)

\* JavaScript values that reach the handler as body.question or as the
\* upstream reply's text
Undefined == [type |-> "undefined", str |-> <<>>, num |-> 0]
Str(s) == [type |-> "string", str |-> s, num |-> 0]
Num(n) == [type |-> "number", str |-> <<>>, num |-> n]

\* JavaScript truthiness
Truthy(v) ==
    \/ v.type = "string" /\ v.str # <<>>
    \/ v.type = "number" /\ v.num # 0

\* the literal the handler falls back to when the environment has no key
FallbackKey == Str(<<"A", "I", "z", "a">>)

\* Deno.env.get("GEMINI_API_KEY") || "AIza..."
GeminiApiKey(envKey) == IF Truthy(envKey) THEN envKey ELSE FallbackKey

EnvKeys == {Undefined, Str(<<>>), Str(<<"k">>)}

Methods == {"OPTIONS", "POST", "GET"}

Questions ==
    {Undefined, Num(0), Num(5), Str(<<>>), Str(<<" ">>), Str(<<"a">>), Str(<<" ", "a">>)}

\* request bodies: text that is not JSON, JSON null, or an object
RequestBodies ==
    {[kind |-> k, question |-> Undefined] : k \in {"notjson", "null"}}
      \cup {[kind |-> "object", question |-> q] : q \in Questions}

Requests == [method : Methods, body : RequestBodies]

\* the links data.candidates[0].content.parts[0] goes through before .text
Chain == <<"candidates", "candidates[0]", "content", "parts", "parts[0]">>

Texts == {Undefined, Num(0), Num(42), Str(<<>>), Str(<<"a">>)}

\* what the upstream API can answer: no answer at all, or a status and a body
UpstreamStatuses == {200, 204, 400, 404, 429, 500, 503}
UpstreamBodies ==
    {[kind |-> k, links |-> 0, text |-> Undefined] : k \in {"notjson", "null"}}
      \cup {[kind |-> "object", links |-> n, text |-> Undefined] : n \in 0..(Len(Chain) - 1)}
      \cup {[kind |-> "object", links |-> Len(Chain), text |-> t] : t \in Texts}
UpstreamReplies ==
    {[kind |-> "network", status |-> 0, body |-> [kind |-> "notjson", links |-> 0, text |-> Undefined]]}
      \cup {[kind |-> "http", status |-> st, body |-> b] : st \in UpstreamStatuses, b \in UpstreamBodies}

\* Response.ok
ResponseOk(status) == status >= 200 /\ status =< 299

\* new Response(null, { headers: corsHeaders })
EmptyReply ==
    [status |-> 200, hasBody |-> FALSE, hasError |-> FALSE, error |-> "",
     hasSuggestion |-> FALSE, suggestion |-> Undefined]

\* new Response(JSON.stringify({ error }), { status })
ErrorReply(status, message) ==
    [status |-> status, hasBody |-> TRUE, hasError |-> TRUE, error |-> message,
     hasSuggestion |-> FALSE, suggestion |-> Undefined]

\* new Response(JSON.stringify({ suggestion }))
SuggestionReply(text) ==
    [status |-> 200, hasBody |-> TRUE, hasError |-> FALSE, error |-> "",
     hasSuggestion |-> TRUE, suggestion |-> text]

\* the global catch: status 500 with the thrown error's message
CaughtReply(message) == ErrorReply(500, message)

\* InvalidQuestion without the trim: a blank question passes
InvalidQuestionNoTrim(q) == ~Truthy(q) \/ q.type # "string"

\* !question || typeof question !== 'string' || question.trim().length === 0
InvalidQuestion(q) ==
    ~Truthy(q) \/ q.type # "string" \/ Len(Trim(q.str)) = 0

\* the handler up to its fetch: the reply it returns, or none when it goes on
\* to call the upstream API
BeforeFetch(req, envKey) ==
    IF req.method = "OPTIONS"
    THEN [call |-> FALSE, reply |-> EmptyReply]
    ELSE IF req.method # "POST"
    THEN [call |-> FALSE, reply |-> ErrorReply(405, "Method not allowed")]
    ELSE IF req.body.kind # "object"
    THEN [call |-> FALSE, reply |-> ErrorReply(400, "Invalid JSON in request body")]
    ELSE IF InvalidQuestion(req.body.question)
    THEN [call |-> FALSE, reply |-> ErrorReply(400, "Valid question is required")]
    ELSE IF ~Truthy(GeminiApiKey(envKey))
    THEN [call |-> FALSE, reply |-> CaughtReply("GEMINI_API_KEY is not configured")]
    ELSE [call |-> TRUE, reply |-> EmptyReply]

\* the response validation of the upstream data
ValidStructure(body) == body.links = Len(Chain) /\ Truthy(body.text)

\* UpstreamErrorReply without its branch for status 429
UpstreamErrorReplyNoRateLimit(status) == ErrorReply(500, "AI service error")

\* the reply to an upstream answer whose status is not a success
UpstreamErrorReply(status) ==
    IF status = 429
    THEN ErrorReply(429, "Rate limit exceeded. Please try again later.")
    ELSE ErrorReply(500, "AI service error")

\* the handler from its fetch on
AfterFetch(up) ==
    IF up.kind = "network"
    THEN CaughtReply("fetch failed")
    ELSE IF ~ResponseOk(up.status)
    THEN UpstreamErrorReply(up.status)
    ELSE IF up.body.kind = "notjson"
    THEN CaughtReply("Unexpected token")
    ELSE IF up.body.kind = "null"
    THEN CaughtReply("Cannot read properties of null")
    ELSE IF ~ValidStructure(up.body)
    THEN CaughtReply("Invalid response format from Google AI")
    ELSE SuggestionReply(up.body.text)

NoRequest == [method |-> "", body |-> [kind |-> "notjson", question |-> Undefined]]
NoUpstream == [kind |-> "none", status |-> 0,
               body |-> [kind |-> "notjson", links |-> 0, text |-> Undefined]]

EdgeIdle ==
    [pc |-> "idle", req |-> NoRequest, envKey |-> Undefined, calls |-> 0,
     upstream |-> NoUpstream, reply |-> EmptyReply]

\* a request arrives and the handler runs up to its reply or its fetch
EdgeRequest ==
    /\ edge.pc = "idle"
    /\ \E req \in Requests, envKey \in EnvKeys :
        LET r == BeforeFetch(req, envKey) IN
        edge' = [pc |-> IF r.call THEN "fetching" ELSE "replied",
                 req |-> req, envKey |-> envKey,
                 calls |-> IF r.call THEN 1 ELSE 0,
                 upstream |-> NoUpstream, reply |-> r.reply]
    /\ UNCHANGED clientVars

\* the upstream API answers and the handler runs to its reply
EdgeUpstream ==
    /\ edge.pc = "fetching"
    /\ \E up \in UpstreamReplies :
        edge' = [edge EXCEPT !.pc = "replied", !.upstream = up,
                             !.reply = AfterFetch(up)]
    /\ UNCHANGED clientVars

\* the reply is sent; the function waits for the next request
EdgeSent ==
    /\ edge.pc = "replied"
    /\ edge' = EdgeIdle
    /\ UNCHANGED clientVars

(* ------------------------------ component ------------------------------ *)

\* what the handler that ran last was given: a speech event ("interim",
\* "finalblank", "final"), a fetch outcome, or nothing of interest
NoEvent == "none"

\* the kind of a delivered speech event, read off the event itself: whether
\* its last result is final and whether its transcripts hold a character
\* other than a space
EventClass(results) ==
    IF results = <<>> \/ ~results[Len(results)].isFinal THEN "interim"
    ELSE IF \A i \in DOMAIN results :
              \A j \in DOMAIN results[i].transcript : results[i].transcript[j] = " "
    THEN "finalblank"
    ELSE "final"

\* numbers of results one speech-recognition event carries
ResultCounts == {0, 1, 2}

Init ==
    /\ mounted = FALSE
    /\ storage \in InitialStorage
    /\ interviewHistory = <<>>
    /\ capturedHistory = <<>>
    /\ question = <<>>
    /\ suggestion = ""
    /\ isLoading = FALSE
    /\ isListening = FALSE
    /\ recActive = FALSE
    /\ inflight = {}
    /\ sent = 0
    /\ last = NoEvent
    /\ storageFailed = FALSE
    /\ edge = EdgeIdle

\* first render and its effects: loadHistory, saveHistory for the loaded
\* history, and the recognition set-up whose onresult keeps the first
\* render's getAISuggestion
Mount ==
    /\ ~mounted
    /\ \E ok \in BOOLEAN :
        LET loaded == LoadHistory(storage) IN
        /\ interviewHistory' = loaded.history
        /\ storage' = SaveHistory(loaded.history, loaded.storage, ok)
        /\ storageFailed' = SaveFailed(loaded.history, ok)
    /\ capturedHistory' = <<>>
    /\ mounted' = TRUE
    /\ last' = NoEvent
    /\ UNCHANGED <<question, suggestion, isLoading, isListening, recActive,
                   inflight, sent, edge>>

\* how a fetch can settle: it rejects ("network"), its body is not JSON
\* ("nonjson"), its status is not a success ("httperror"), its JSON has no
\* suggestion ("nosuggestion"), or it carries a suggestion ("ok")
Outcomes == {"ok", "network", "nonjson", "httperror", "nosuggestion"}

\* getAISuggestion without its check of data.suggestion
ReachesSetSuggestionUnchecked(outcome) ==
    /\ outcome # "network"
    /\ outcome # "nonjson"
    /\ outcome # "httperror"

\* getAISuggestion reaches setSuggestion: no await rejected and no check threw
ReachesSetSuggestion(outcome) ==
    /\ outcome # "network"
    /\ outcome # "nonjson"
    /\ outcome # "httperror"
    /\ outcome # "nosuggestion"

\* event.results of one speech-recognition event
Pieces == {<<" ">>, <<"a">>}
ResultT == [transcript : Pieces, isFinal : BOOLEAN]
\* results before the last one are settled ones, as the engine lists them;
\* the handler reads isFinal of the last result only
EventResults ==
    {r \in UNION {[1..n -> ResultT] : n \in ResultCounts} :
        \A i \in 1..(Len(r) - 1) : r[i].isFinal}

\* event.results && event.results.length > 0 && event.results[length - 1].isFinal
LastIsFinal(results) == Len(results) > 0 /\ results[Len(results)].isFinal

\* the input validation without the trim: whitespace passes
IsBlankQuestionNoTrim(q) == q = <<>>

\* getAISuggestion's input validation: !interviewQuestion || !interviewQuestion.trim()
IsBlankQuestion(q) == q = <<>> \/ Trim(q) = <<>>

\* onresult runs getAISuggestion up to its fetch
StartsFetch(results) ==
    LastIsFinal(results) /\ ~IsBlankQuestion(JoinTranscript(results))

\* the fetch getAISuggestion sends
NewFetch(n, interviewQuestion) ==
    [req |-> n, question |-> interviewQuestion, body |-> Trim(interviewQuestion)]

\* newHistoryItem
NewHistoryItem(f) ==
    [id |-> f.req, question |-> f.question, suggestion |-> AnswerText(f.req)]

\* [newHistoryItem, ...interviewHistory].slice(0, 50)
UpdatedHistory(item, history) == Slice(<<item>> \o history, HistoryCap)

\* toggleListening
ToggleListening ==
    /\ mounted
    /\ IF isListening
       THEN \* recognition.stop(); the engine ends later, with onend
            /\ isListening' = FALSE
            /\ UNCHANGED <<question, suggestion, recActive>>
       ELSE IF recActive
       THEN \* recognition.start() throws on a started engine: caught
            UNCHANGED <<isListening, question, suggestion, recActive>>
       ELSE /\ recActive' = TRUE
            /\ isListening' = TRUE
            /\ question' = <<>>
            /\ suggestion' = ""
    /\ last' = NoEvent
    /\ UNCHANGED <<mounted, storage, interviewHistory, capturedHistory, isLoading,
                   inflight, sent, storageFailed, edge>>

\* recognition.onresult, up to the await of the fetch
OnResult ==
    /\ mounted
    /\ recActive
    /\ \E results \in EventResults :
        LET transcript == JoinTranscript(results) IN
        /\ question' = transcript
        /\ last' = EventClass(results)
        /\ IF StartsFetch(results)
           THEN /\ sent < MaxFetches
                /\ isLoading' = TRUE
                /\ suggestion' = ""
                /\ sent' = sent + 1
                /\ inflight' = inflight \cup {NewFetch(sent + 1, transcript)}
           ELSE UNCHANGED <<isLoading, suggestion, sent, inflight>>
    /\ UNCHANGED <<mounted, storage, interviewHistory, capturedHistory, isListening,
                   recActive, storageFailed, edge>>

\* getAISuggestion after its fetch settles, and the saveHistory effect of the
\* render that follows
FetchDone ==
    /\ mounted
    /\ \E f \in inflight, outcome \in Outcomes, ok \in BOOLEAN :
        /\ inflight' = inflight \ {f}
        /\ isLoading' = FALSE
        /\ last' = outcome
        /\ IF ReachesSetSuggestion(outcome)
           THEN LET updatedHistory == UpdatedHistory(NewHistoryItem(f), capturedHistory) IN
                /\ suggestion' = AnswerText(f.req)
                /\ interviewHistory' = updatedHistory
                /\ storage' = SaveHistory(updatedHistory, storage, ok)
                /\ storageFailed' = (storageFailed \/ SaveFailed(updatedHistory, ok))
           ELSE /\ ok
                /\ UNCHANGED <<suggestion, interviewHistory, storage, storageFailed>>
    /\ UNCHANGED <<mounted, capturedHistory, question, isListening, recActive,
                   sent, edge>>

\* clearHistory, offered while the history is not empty
ClearHistory ==
    /\ mounted
    /\ Len(interviewHistory) > 0
    /\ interviewHistory' = <<>>
    /\ \E ok \in BOOLEAN :
        /\ storage' = IF ok THEN Absent ELSE storage
        /\ storageFailed' = (storageFailed \/ ~ok)
    /\ last' = NoEvent
    /\ UNCHANGED <<mounted, capturedHistory, question, suggestion, isLoading,
                   isListening, recActive, inflight, sent, edge>>

\* recognition.onerror
OnError ==
    /\ mounted
    /\ recActive
    /\ isListening' = FALSE
    /\ last' = NoEvent
    /\ UNCHANGED <<mounted, storage, interviewHistory, capturedHistory, question,
                   suggestion, isLoading, recActive, inflight, sent,
                   storageFailed, edge>>

\* recognition.onend
OnEnd ==
    /\ mounted
    /\ recActive
    /\ recActive' = FALSE
    /\ isListening' = FALSE
    /\ last' = NoEvent
    /\ UNCHANGED <<mounted, storage, interviewHistory, capturedHistory, question,
                   suggestion, isLoading, inflight, sent, storageFailed, edge>>

Next ==
    \/ Mount
    \/ ToggleListening
    \/ OnResult
    \/ FetchDone
    \/ ClearHistory
    \/ OnError
    \/ OnEnd

Spec == Init /\ [][Next]_vars

(* --------------------- the edge function on its own -------------------- *)

EdgeInit ==
    /\ mounted = FALSE
    /\ storage = Absent
    /\ interviewHistory = <<>>
    /\ capturedHistory = <<>>
    /\ question = <<>>
    /\ suggestion = ""
    /\ isLoading = FALSE
    /\ isListening = FALSE
    /\ recActive = FALSE
    /\ inflight = {}
    /\ sent = 0
    /\ last = NoEvent
    /\ storageFailed = FALSE
    /\ edge = EdgeIdle

EdgeNext ==
    \/ EdgeRequest
    \/ EdgeUpstream
    \/ EdgeSent

EdgeSpec == EdgeInit /\ [][EdgeNext]_vars

(* ------------------------------- claims -------------------------------- *)

\* a successful fetch settled in this step
FetchSucceeded == last' = "ok" /\ inflight' # inflight
\* a failed fetch settled in this step
FetchFailed ==
    /\ last' \in {"network", "nonjson", "httperror", "nosuggestion"}
    /\ inflight' # inflight

\* C1: a successful suggestion fetch makes the history the new record
\* followed by the records it held just before, cut to the first 50.
C1_RollingHistory ==
    [][FetchSucceeded =>
        \E f \in inflight \ inflight' :
            interviewHistory' = UpdatedHistory(NewHistoryItem(f), interviewHistory)]_vars

\* C2: once mounted, the history in memory and the array in local storage
\* hold at most 50 records, whatever array local storage held at mount.
C2_AtMostFifty ==
    mounted =>
        /\ Len(interviewHistory) <= HistoryCap
        /\ (storage.kind = "array" => Len(storage.items) <= HistoryCap)

\* every effect has run (each handler runs its effects) and no storage
\* operation has failed
Quiescent == mounted /\ ~storageFailed

\* C3 as stated: in a quiescent state the stored entry is the history when
\* the history is not empty, and is absent when the history is empty.
C3_SavedOrAbsent ==
    Quiescent =>
        IF interviewHistory # <<>>
        THEN storage = JSONStringify(interviewHistory)
        ELSE storage = Absent

\* C3 as amended: in a quiescent state the stored entry is the history when
\* the history is not empty; when it is empty the entry is absent or is what
\* was found at mount and loads as an empty history (the empty string, a
\* non-array value or an empty array); a remount reloads the history shown.
C3_SavedOrLoadsEmpty ==
    Quiescent =>
        /\ interviewHistory # <<>> => storage = JSONStringify(interviewHistory)
        /\ interviewHistory = <<>> =>
              \/ storage.kind \in {"absent", "emptystr", "nonarray"}
              \/ storage.kind = "array" /\ storage.items = <<>>
        /\ LoadHistory(storage) = [history |-> interviewHistory, storage |-> storage]

\* C3 witness: a request has been sent and the history is empty next to a
\* stored entry that is not absent
C3_Witness ==
    /\ Quiescent
    /\ sent > 0
    /\ interviewHistory = <<>>
    /\ storage = NonArray

\* the mount step
Mounting == ~mounted /\ mounted'

\* C4 as stated: mount sets the history from storage only for an array; an
\* absent entry or a non-array value leaves history empty and storage as it
\* was; an entry that is not parseable JSON leaves history empty and is
\* removed.
C4_LoadOnMount ==
    [][Mounting =>
        /\ storage.kind = "array" => interviewHistory' = storage.items
        /\ storage.kind \in {"absent", "nonarray"} =>
              interviewHistory' = <<>> /\ storage' = storage
        /\ storage.kind \in {"corrupt", "emptystr"} =>
              interviewHistory' = <<>> /\ storage' = Absent]_vars

\* C4 as amended: the same, except that an entry holding the empty string is
\* treated as an absent one: history stays empty and the entry is left as it
\* is; only a non-empty string that is not parseable JSON is removed.
C4_LoadOnMountEmptyKept ==
    [][Mounting =>
        /\ storage.kind = "array" => interviewHistory' = storage.items
        /\ storage.kind \in {"absent", "nonarray", "emptystr"} =>
              interviewHistory' = <<>> /\ storage' = storage
        /\ storage.kind = "corrupt" =>
              interviewHistory' = <<>> /\ storage' = Absent]_vars

\* C4 witness: the component mounted over an empty-string entry
C4_Witness ==
    mounted /\ storage = EmptyString /\ interviewHistory = <<>>

\* C5: every reply to a non-OPTIONS request has a JSON body with exactly one
\* of 'suggestion' and 'error'; 'suggestion' is a non-empty string and comes
\* with a success status; 'error' comes with a status of 400 or above.
C5_ReplyShape ==
    (edge.pc = "replied" /\ edge.req.method # "OPTIONS") =>
        /\ edge.reply.hasBody
        /\ edge.reply.hasSuggestion # edge.reply.hasError
        /\ edge.reply.hasSuggestion =>
              /\ ResponseOk(edge.reply.status)
              /\ edge.reply.suggestion.type = "string"
              /\ edge.reply.suggestion.str # <<>>
        /\ edge.reply.hasError => edge.reply.status >= 400

\* the upstream API answered with a status that is not a success
UpstreamFailed ==
    /\ edge.pc = "replied"
    /\ edge.upstream.kind = "http"
    /\ ~ResponseOk(edge.upstream.status)

\* C6 as stated: the reply to the client has the upstream's non-success status.
C6_PassThrough ==
    UpstreamFailed => edge.reply.status = edge.upstream.status

\* C6 as amended: an upstream 429 is answered with 429, every other upstream
\* non-success status with 500; both replies carry an error.
C6_RateLimitOr500 ==
    UpstreamFailed =>
        /\ edge.reply.hasError
        /\ edge.reply.status = IF edge.upstream.status = 429 THEN 429 ELSE 500

\* C6 witness: an upstream 429 was answered
C6_Witness ==
    UpstreamFailed /\ edge.upstream.status = 429 /\ edge.reply.status = 429

\* C7: when no fetch is in flight and a suggestion is shown, it is the
\* answer to the latest request sent (the one for the latest final transcript).
C7_SuggestionIsLatest ==
    (mounted /\ inflight = {} /\ suggestion # "") => suggestion = AnswerText(sent)

\* C8: a request is sent exactly by a speech event whose last result is final
\* and whose joined transcript is not blank, and it carries the trimmed
\* transcript; an interim event changes only the displayed question; a final
\* blank event leaves isLoading, the suggestion, the history and the
\* requests as they were.
C8_RequestOnFinalOnly ==
    [][/\ (sent' # sent) <=> (last' = "final")
       /\ (inflight' \ inflight # {}) <=> (last' = "final")
       /\ last' = "final" =>
             /\ sent' = sent + 1
             /\ \E f \in inflight' \ inflight :
                   /\ f.question = question'
                   /\ f.body # <<>>
                   /\ f.body[1] # " " /\ f.body[Len(f.body)] # " "
             /\ isLoading'
       /\ last' = "interim" =>
             UNCHANGED <<isLoading, suggestion, interviewHistory, storage,
                         inflight, sent, isListening, recActive, storageFailed>>
       /\ last' = "finalblank" =>
             UNCHANGED <<isLoading, suggestion, interviewHistory, storage,
                         inflight, sent>>]_vars

\* C8 witness: a final event with a whitespace-only joined transcript arrived
\* while a request was loading
C8_Witness ==
    /\ last = "finalblank"
    /\ Len(question) = 2
    /\ isLoading
    /\ sent = 1

\* what the edge function was asked
EdgeQuestion == edge.req.body.question

\* C9: the upstream API is called only for a POST whose body is JSON with a
\* string question holding a non-space character; OPTIONS gets an empty
\* success reply, another method 405, an unparseable body 400, a missing,
\* non-string or blank question 400, each without an upstream call.
C9_CallOnlyForValidPost ==
    /\ (edge.pc # "idle" /\ edge.calls > 0) =>
          /\ edge.req.method = "POST"
          /\ edge.req.body.kind = "object"
          /\ EdgeQuestion.type = "string"
          /\ \E i \in DOMAIN EdgeQuestion.str : EdgeQuestion.str[i] # " "
    /\ (edge.pc = "replied" /\ edge.req.method = "OPTIONS") =>
          /\ edge.calls = 0
          /\ ~edge.reply.hasBody
          /\ ResponseOk(edge.reply.status)
    /\ (edge.pc = "replied" /\ edge.req.method \notin {"OPTIONS", "POST"}) =>
          edge.calls = 0 /\ edge.reply.status = 405
    /\ (edge.pc = "replied" /\ edge.req.method = "POST"
          /\ edge.req.body.kind = "notjson") =>
          edge.calls = 0 /\ edge.reply.status = 400
    /\ (edge.pc = "replied" /\ edge.req.method = "POST"
          /\ edge.req.body.kind = "object"
          /\ (\/ EdgeQuestion.type # "string"
              \/ \A i \in DOMAIN EdgeQuestion.str : EdgeQuestion.str[i] = " ")) =>
          edge.calls = 0 /\ edge.reply.status = 400

\* C9 witness: a POST with a whitespace-only question was refused
C9_Witness ==
    /\ edge.pc = "replied"
    /\ edge.req.method = "POST"
    /\ EdgeQuestion = Str(<<" ">>)
    /\ edge.reply.status = 400
    /\ edge.calls = 0

\* C10 as stated: a failed fetch leaves the history in memory, the stored
\* history and the displayed suggestion as they were; a record enters the
\* history only by a fetch that returned a non-empty suggestion; so every
\* record in the history has a non-empty suggestion.
C10_EveryRecordHasSuggestion ==
    /\ [][FetchFailed => UNCHANGED <<interviewHistory, storage, suggestion>>]_vars
    /\ [][(mounted /\ interviewHistory' # interviewHistory
              /\ interviewHistory' # <<>>) => last' = "ok"]_vars
    /\ [](mounted =>
            \A i \in DOMAIN interviewHistory : interviewHistory[i].suggestion # "")

\* C10 as amended: a failed fetch leaves the history in memory, the stored
\* history and the displayed suggestion as they were; after mount a record
\* enters the history only by a fetch that returned a non-empty suggestion,
\* and that record carries it; records loaded from storage are not checked.
C10_FailedFetchChangesNothing ==
    [][/\ FetchFailed => UNCHANGED <<interviewHistory, storage, suggestion>>
       /\ (mounted /\ interviewHistory' # interviewHistory
              /\ interviewHistory' # <<>>) =>
             /\ last' = "ok"
             /\ suggestion' # ""
             /\ \A i \in DOMAIN interviewHistory' :
                   \/ interviewHistory'[i].suggestion = suggestion'
                   \/ interviewHistory'[i] \in
                         {interviewHistory[j] : j \in DOMAIN interviewHistory}]_vars

\* C10 witness: a fetch failed for want of a suggestion while the history
\* held a record of this session
C10_Witness ==
    /\ last = "nosuggestion"
    /\ interviewHistory # <<>>
    /\ interviewHistory[1].id > 0
    /\ suggestion = ""

\* the request passed the method, body and question checks
PassedValidation ==
    /\ edge.pc # "idle"
    /\ edge.req.method = "POST"
    /\ edge.req.body.kind = "object"
    /\ EdgeQuestion.type = "string"
    /\ \E i \in DOMAIN EdgeQuestion.str : EdgeQuestion.str[i] # " "

\* C11: when the environment has no GEMINI_API_KEY, the edge function makes
\* no upstream call and replies 500 with 'GEMINI_API_KEY is not configured'.
C11_NoKeyNoCall ==
    (PassedValidation /\ edge.envKey = Undefined) =>
        /\ edge.calls = 0
        /\ edge.pc = "replied"
        /\ edge.reply.status = 500
        /\ edge.reply.hasError
        /\ edge.reply.error = "GEMINI_API_KEY is not configured"

====
